---- MODULE Spec2Model ----
(***************************************************************************)
(* Model of @dldc/safe-search-params: a typed, immutable facade over an    *)
(* ordered multi-valued key/value sequence (URLSearchParams).              *)
(*                                                                         *)
(* Representation                                                          *)
(*   - a key is a TLA+ string;                                             *)
(*   - a raw value (a JS string stored under a key) is a sequence of       *)
(*     one-character strings, so that parseInt / toFixed / RegExp.test     *)
(*     are computed, not assumed;                                          *)
(*   - an entry is <<key, rawValue>>; a URLSearchParams object is a        *)
(*     sequence of entries living in `heap` under an object id;            *)
(*   - a plain JS object (Record<string, X>) is a sequence of <<key, X>>   *)
(*     with distinct keys, in own-property order;                          *)
(*   - a typed value is a record tagged by field t.                        *)
(***************************************************************************)
EXTENDS Integers, Sequences, FiniteSets, TLC

VARIABLES
    heap,     \* URLSearchParams objects: object id -> sequence of entries
    facades,  \* facade instances: [urlSearchParams: id, cache: key -> values]
    ret       \* the last call: operation, receiver, arguments and outcome

vars == <<heap, facades, ret>>

-----------------------------------------------------------------------------
(* Bounds of the model *)

MaxLen == 3       \* longest initial sequence
MaxNew == 2       \* longest array value handed to an rMultiple datatype

-----------------------------------------------------------------------------
(* Generic helpers *)

Range(s) == {s[i] : i \in 1..Len(s)}

SeqsUpTo(S, n) == UNION {[1..m -> S] : m \in 0..n}

Min(a, b) == IF a <= b THEN a ELSE b

RECURSIVE Flatten(_)
Flatten(ss) == IF ss = <<>> THEN <<>> ELSE Head(ss) \o Flatten(Tail(ss))

-----------------------------------------------------------------------------
(* JS strings as character sequences *)

RECURSIVE Str(_)
\* the JS string spelled by a character sequence
Str(cs) == IF cs = <<>> THEN "" ELSE Head(cs) \o Str(Tail(cs))

RECURSIVE JoinStr(_, _)
\* Array.prototype.join over strings
JoinStr(ss, sep) ==
    IF ss = <<>> THEN ""
    ELSE IF Len(ss) = 1 THEN Head(ss)
    ELSE Head(ss) \o sep \o JoinStr(Tail(ss), sep)

Digits == <<"0", "1", "2", "3", "4", "5", "6", "7", "8", "9">>

IsDigit(c) == \E i \in 1..10 : Digits[i] = c

DigitVal(c) == (CHOOSE i \in 1..10 : Digits[i] = c) - 1

\* StrWhiteSpaceChar: the WhiteSpace and LineTerminator characters parseInt
\* skips: SPACE, TAB, LF, CR, FF, VT, NO-BREAK SPACE, OGHAM SPACE MARK and
\* ZERO WIDTH NO-BREAK SPACE (U+2000 to U+200A, U+2028, U+2029, U+202F,
\* U+205F and U+3000 are skipped too, but cannot be written in a string here)
StrWhiteSpaceChar ==
    {" ", "\t", "\n", "\r", "\f", "", " ", " ", "﻿"}

RECURSIVE SkipSpaces(_)
SkipSpaces(cs) ==
    IF cs # <<>> /\ Head(cs) \in StrWhiteSpaceChar THEN SkipSpaces(Tail(cs)) ELSE cs

RECURSIVE DigitPrefix(_)
DigitPrefix(cs) ==
    IF cs # <<>> /\ IsDigit(Head(cs))
    THEN <<Head(cs)>> \o DigitPrefix(Tail(cs))
    ELSE <<>>

RECURSIVE DigitsValue(_, _)
DigitsValue(cs, acc) ==
    IF cs = <<>> THEN acc
    ELSE DigitsValue(Tail(cs), acc * 10 + DigitVal(Head(cs)))

\* typed values (JS values handled by the datatypes)
Null == [t |-> "null"]
NaN == [t |-> "nan"]
Num(n) == [t |-> "num", n |-> n]
StrV(cs) == [t |-> "str", s |-> cs]
Bool(b) == [t |-> "bool", b |-> b]
Arr(vs) == [t |-> "arr", a |-> vs]

\* parseInt(s, 10): leading white space, an optional sign, then the longest
\* prefix of decimal digits; NaN when there is no digit.  The value is exact:
\* the code's is a double, the same for every integer below 2^53
ParseInt(cs) ==
    LET s0 == SkipSpaces(cs)
        neg == s0 # <<>> /\ Head(s0) = "-"
        s1 == IF s0 # <<>> /\ Head(s0) \in {"-", "+"} THEN Tail(s0) ELSE s0
        ds == DigitPrefix(s1)
    IN  IF ds = <<>> THEN NaN
        ELSE Num(IF neg THEN 0 - DigitsValue(ds, 0) ELSE DigitsValue(ds, 0))

RECURSIVE NatDigits(_)
NatDigits(n) ==
    IF n < 10 THEN <<Digits[n + 1]>>
    ELSE NatDigits(n \div 10) \o <<Digits[(n % 10) + 1]>>

\* Number.prototype.toFixed() of an integral number or NaN
ToFixed(v) ==
    IF v.t = "nan" THEN <<"N", "a", "N">>
    ELSE IF v.n < 0 THEN <<"-">> \o NatDigits(0 - v.n)
    ELSE NatDigits(v.n)

-----------------------------------------------------------------------------
(* Datatypes: name, parse, serialize *)

DString == [k |-> "String"]
DInteger == [k |-> "Integer"]
DPresent == [k |-> "Present"]
DRegex(source) == [k |-> "Regex", source |-> source]
DEnum(values) == [k |-> "Enum", values |-> values]
DMultiple(sub) == [k |-> "Multiple", sub |-> sub]
DRequired(sub) == [k |-> "Required", sub |-> sub]

\* the regular expression used by the repository's tests: /^[0-9]+$/
DigitsRegex == "^[0-9]+$"

\* RegExp.prototype.test for the (non-global) regular expressions of the model
RegexTest(source, cs) ==
    IF source = DigitsRegex
    THEN cs # <<>> /\ \A i \in 1..Len(cs) : IsDigit(cs[i])
    ELSE FALSE

Valid(v) == [valid |-> TRUE, value |-> v]
Invalid(e) == [valid |-> FALSE, error |-> e]

getFirst(input) == IF Len(input) = 0 THEN Null ELSE StrV(input[1])

RECURSIVE DtName(_)
DtName(d) ==
    CASE d.k = "String" -> "String"
      [] d.k = "Integer" -> "Integer"
      [] d.k = "Present" -> "Present"
      [] d.k = "Regex" -> "Regex<" \o d.source \o ">"
      [] d.k = "Enum" ->
            "Enum<" \o JoinStr([i \in 1..Len(d.values) |-> Str(d.values[i])], " | ") \o ">"
      [] d.k = "Multiple" -> "Multiple<" \o DtName(d.sub) \o ">"
      [] d.k = "Required" -> "Required<" \o DtName(d.sub) \o ">"

rStringParse(input) == Valid(getFirst(input))

rIntegerParse(input) ==
    LET last == getFirst(input) IN
    IF last = Null THEN Valid(Null)
    ELSE LET parsed == ParseInt(last.s) IN
         IF parsed.t = "nan" THEN Invalid("Invalid integer")
         ELSE IF ToFixed(parsed) # last.s THEN Invalid("Invalid integer")
         ELSE Valid(parsed)

rPresentParse(input) == Valid(Bool(getFirst(input) # Null))

rRegexParse(source, input) ==
    LET last == getFirst(input) IN
    IF last = Null THEN Valid(Null)
    ELSE IF ~RegexTest(source, last.s) THEN Invalid("Invalid value")
    ELSE Valid(last)

rEnumParse(values, input) ==
    LET last == getFirst(input) IN
    IF last = Null THEN Valid(Null)
    ELSE IF last.s \notin Range(values) THEN Invalid("Invalid value")
    ELSE Valid(last)

RECURSIVE Parse(_, _)

\* the loop of rMultiple.parse from element i on, values collected in acc
RECURSIVE rMultipleLoop(_, _, _, _)
rMultipleLoop(sub, input, i, acc) ==
    IF i > Len(input) THEN Valid(Arr(acc))
    ELSE LET parsed == Parse(sub, <<input[i]>>) IN
         IF ~parsed.valid THEN Invalid("Invalid value")
         ELSE rMultipleLoop(sub, input, i + 1, Append(acc, parsed.value))

\* (mutation) rRequired that takes an empty list of raw values for a missing
\* value, whatever the wrapped datatype makes of it
rRequiredParseEmptyIsMissing(sub, input) ==
    LET parsed == Parse(sub, input) IN
    IF ~parsed.valid THEN parsed
    ELSE IF parsed.value = Null \/ Len(input) = 0 THEN Invalid("Missing value")
    ELSE parsed

rRequiredParse(sub, input) ==
    LET parsed == Parse(sub, input) IN
    IF ~parsed.valid THEN parsed
    ELSE IF parsed.value = Null THEN Invalid("Missing value")
    ELSE parsed

Parse(d, input) ==
    CASE d.k = "String" -> rStringParse(input)
      [] d.k = "Integer" -> rIntegerParse(input)
      [] d.k = "Present" -> rPresentParse(input)
      [] d.k = "Regex" -> rRegexParse(d.source, input)
      [] d.k = "Enum" -> rEnumParse(d.values, input)
      [] d.k = "Multiple" -> rMultipleLoop(d.sub, input, 1, <<>>)
      [] d.k = "Required" -> rRequiredParse(d.sub, input)

RECURSIVE SerializeThrows(_, _)
\* serialize raises a TypeError when rMultiple is handed null (not iterable)
SerializeThrows(d, v) ==
    CASE d.k = "Multiple" ->
            \/ v.t # "arr"
            \/ \E i \in 1..Len(v.a) : SerializeThrows(d.sub, v.a[i])
      [] d.k = "Required" -> SerializeThrows(d.sub, v)
      [] OTHER -> FALSE

RECURSIVE Serialize(_, _)
Serialize(d, v) ==
    CASE d.k \in {"String", "Regex", "Enum"} ->
            IF v = Null THEN <<>> ELSE <<v.s>>
      [] d.k = "Integer" -> IF v = Null THEN <<>> ELSE <<ToFixed(v)>>
      [] d.k = "Present" -> IF v = Bool(TRUE) THEN << <<>> >> ELSE <<>>
      [] d.k = "Multiple" ->
            Flatten([i \in 1..Len(v.a) |-> Serialize(d.sub, v.a[i])])
      [] d.k = "Required" -> Serialize(d.sub, v)

-----------------------------------------------------------------------------
(* URLSearchParams: an ordered list of <<name, value>> entries *)

\* UTF-16 code units of the keys of the model (URLSearchParams.sort compares
\* names by code units)
KeyUnits ==
    [a |-> <<97>>,
     b |-> <<98>>,
     constructor |-> <<99, 111, 110, 115, 116, 114, 117, 99, 116, 111, 114>>,
     toString |-> <<116, 111, 83, 116, 114, 105, 110, 103>>]

RECURSIVE UnitsLess(_, _)
UnitsLess(x, y) ==
    IF y = <<>> THEN FALSE
    ELSE IF x = <<>> THEN TRUE
    ELSE IF Head(x) # Head(y) THEN Head(x) < Head(y)
    ELSE UnitsLess(Tail(x), Tail(y))

KeyLess(k1, k2) == UnitsLess(KeyUnits[k1], KeyUnits[k2])

\* URLSearchParams.getAll(name)
uspGetAll(list, name) ==
    LET idx == {i \in 1..Len(list) : list[i][1] = name}
        RECURSIVE Pick(_)
        Pick(i) ==
            IF i > Len(list) THEN <<>>
            ELSE IF i \in idx THEN <<list[i][2]>> \o Pick(i + 1)
            ELSE Pick(i + 1)
    IN  Pick(1)

\* URLSearchParams.append(name, value)
uspAppend(list, name, value) == Append(list, <<name, value>>)

RECURSIVE uspAppendAll(_, _, _)
\* serialized.forEach((v) => next.append(name, v))
uspAppendAll(list, name, values) ==
    IF values = <<>> THEN list
    ELSE uspAppendAll(uspAppend(list, name, Head(values)), name, Tail(values))

\* (mutation) delete removing the first entry called name only
uspDeleteFirst(list, name) ==
    IF \E j \in 1..Len(list) : list[j][1] = name
    THEN LET p == CHOOSE j \in 1..Len(list) :
                     list[j][1] = name /\ \A x \in 1..(j - 1) : list[x][1] # name
         IN  SubSeq(list, 1, p - 1) \o SubSeq(list, p + 1, Len(list))
    ELSE list

RECURSIVE uspDelete(_, _)
\* URLSearchParams.delete(name): removes every entry called name
uspDelete(list, name) ==
    IF list = <<>> THEN <<>>
    ELSE IF Head(list)[1] = name THEN uspDelete(Tail(list), name)
    ELSE <<Head(list)>> \o uspDelete(Tail(list), name)

RECURSIVE InsertSortedBeforeEqual(_, _)
\* (mutation) e goes in front of the entries that share its name: not stable
InsertSortedBeforeEqual(sorted, e) ==
    IF sorted = <<>> THEN <<e>>
    ELSE IF ~KeyLess(Head(sorted)[1], e[1]) THEN <<e>> \o sorted
    ELSE <<Head(sorted)>> \o InsertSortedBeforeEqual(Tail(sorted), e)

RECURSIVE InsertSorted(_, _)
\* e goes after every entry whose name is not greater than its own
InsertSorted(sorted, e) ==
    IF sorted = <<>> THEN <<e>>
    ELSE IF KeyLess(e[1], Head(sorted)[1]) THEN <<e>> \o sorted
    ELSE <<Head(sorted)>> \o InsertSorted(Tail(sorted), e)

RECURSIVE SortFrom(_, _)
SortFrom(list, acc) ==
    IF list = <<>> THEN acc
    ELSE SortFrom(Tail(list), InsertSorted(acc, Head(list)))

\* URLSearchParams.sort(): stable, by the code units of the names
uspSort(list) == SortFrom(list, <<>>)

-----------------------------------------------------------------------------
(* Plain JS objects: <<key, value>> pairs, distinct keys, own-property order *)

ObjKeys(o) == {o[i][1] : i \in 1..Len(o)}

ObjOwn(o, key) == o[CHOOSE i \in 1..Len(o) : o[i][1] = key][2]

\* the `length` property of the values every plain object inherits from
\* Object.prototype: the declared arity of the functions, and "undefined" for
\* __proto__, whose value is Object.prototype itself (an object without
\* length; a runtime that deletes the accessor, as Deno does, gives undefined
\* for the property itself)
ObjectPrototypeLength ==
    [constructor |-> 1,
     toString |-> 0,
     toLocaleString |-> 0,
     valueOf |-> 0,
     hasOwnProperty |-> 1,
     isPrototypeOf |-> 1,
     propertyIsEnumerable |-> 1]
    @@ ("__defineGetter__" :> 2) @@ ("__defineSetter__" :> 2)
    @@ ("__lookupGetter__" :> 1) @@ ("__lookupSetter__" :> 1)
    @@ ("__proto__" :> "undefined")

\* the inherited value under key has a length, and it is 0
InheritedLengthIsZero(key) ==
    key # "__proto__" /\ ObjectPrototypeLength[key] = 0

\* the characters of a property name
KeyChars(key) == [i \in 1..Len(key) |-> SubSeq(key, i, i)]

\* the largest array index, 2^32 - 2, in decimal digits
MaxArrayIndex == <<"4", "2", "9", "4", "9", "6", "7", "2", "9", "4">>

\* a < b for two numbers written in decimal digits without leading zeros
DigitsLess(a, b) ==
    \/ Len(a) < Len(b)
    \/ /\ Len(a) = Len(b)
       /\ \E i \in 1..Len(a) :
             /\ DigitVal(a[i]) < DigitVal(b[i])
             /\ \A j \in 1..(i - 1) : a[j] = b[j]

\* key is integer-like: the canonical decimal form of an array index, 0 to
\* 2^32 - 2.  An object enumerates such names first, in ascending numeric
\* order, then the other names in the order they were added.
IsArrayIndex(key) ==
    LET cs == KeyChars(key) IN
    /\ Len(cs) >= 1
    /\ \A i \in 1..Len(cs) : IsDigit(cs[i])
    /\ Len(cs) = 1 \/ cs[1] # "0"
    /\ ~DigitsLess(MaxArrayIndex, cs)

\* two integer-like names by their numbers
ArrayIndexLess(k1, k2) == DigitsLess(KeyChars(k1), KeyChars(k2))

\* o[key] on a plain object: an own property, else what Object.prototype
\* gives, else undefined
ObjGet(o, key) ==
    IF key \in ObjKeys(o) THEN [kind |-> "own", value |-> ObjOwn(o, key)]
    ELSE IF key \in DOMAIN ObjectPrototypeLength
         THEN [kind |-> "inherited", length |-> ObjectPrototypeLength[key]]
    ELSE [kind |-> "undefined"]

\* defining the data property key of o (Object.fromEntries, a computed key
\* in an object literal): an own property keeps its place; a new
\* integer-like one goes among the integer-like ones by its number, any
\* other new one last
ObjDefine(o, key, value) ==
    IF key \in ObjKeys(o)
    THEN [i \in 1..Len(o) |-> IF o[i][1] = key THEN <<key, value>> ELSE o[i]]
    ELSE IF IsArrayIndex(key)
         THEN LET p == Cardinality({i \in 1..Len(o) :
                          /\ IsArrayIndex(o[i][1])
                          /\ ArrayIndexLess(o[i][1], key)})
              IN  SubSeq(o, 1, p) \o <<<<key, value>>>> \o SubSeq(o, p + 1, Len(o))
    ELSE Append(o, <<key, value>>)

\* o[key] = value: as ObjDefine, but for __proto__ on an object without such
\* an own property: the assignment goes to the accessor inherited from
\* Object.prototype, which creates no property (a runtime that deletes the
\* accessor, as Deno does, creates the property)
ObjSet(o, key, value) ==
    IF key = "__proto__" /\ key \notin ObjKeys(o) THEN o
    ELSE ObjDefine(o, key, value)

\* Object.entries(o)
ObjectEntries(o) == o

RECURSIVE ObjectFromEntries(_)
ObjectFromEntries(es) ==
    IF es = <<>> THEN <<>>
    ELSE ObjDefine(ObjectFromEntries(SubSeq(es, 1, Len(es) - 1)),
                es[Len(es)][1], es[Len(es)][2])

-----------------------------------------------------------------------------
(* Outcomes of a call *)

Return(v) == [kind |-> "return", value |-> v]
Throw(e) == [kind |-> "throw", error |-> e]

TypeError == [type |-> "TypeError"]
UsageError(name) ==
    [type |-> "Error", message |-> "Type for \"" \o name \o "\" not found in object"]

\* createSafeSearchParamsErreur(property, datatype, values, error)
createSafeSearchParamsErreur(property, datatype, values, error) ==
    [type |-> "SafeSearchParamsErreur",
     message |-> "Failed to validate " \o DtName(datatype)
                 \o " rule for property \"" \o property \o "\" with values: "
                 \o JoinStr([i \in 1..Len(values) |-> Str(values[i])], ", ")
                 \o ". " \o error,
     property |-> property,
     datatype |-> datatype,
     values |-> values,
     error |-> error]

-----------------------------------------------------------------------------
(* The merge/update algorithm *)

\* Clone values: one private queue per key of the mapping
CloneQueues(values) ==
    ObjectFromEntries([i \in 1..Len(ObjectEntries(values)) |->
        <<ObjectEntries(values)[i][1], ObjectEntries(values)[i][2]>>])

RECURSIVE setInternalWalk(_, _, _, _)
\* the loop over the original entries, from entry i on
setInternalWalk(entries, i, queues, nextEntries) ==
    IF i > Len(entries) THEN Return([queues |-> queues, nextEntries |-> nextEntries])
    ELSE
      LET key == entries[i][1]
          value == entries[i][2]
          queue == ObjGet(queues, key)
      IN  CASE queue.kind = "undefined" ->
                 setInternalWalk(entries, i + 1, queues,
                                 Append(nextEntries, <<key, value>>))
            [] queue.kind = "own" ->
                 IF Len(queue.value) = 0
                 THEN setInternalWalk(entries, i + 1, queues, nextEntries)
                 ELSE setInternalWalk(entries, i + 1,
                                      ObjSet(queues, key, Tail(queue.value)),
                                      Append(nextEntries, <<key, Head(queue.value)>>))
            [] queue.kind = "inherited" ->
                 \* not an array: its length decides, and it has no shift()
                 IF InheritedLengthIsZero(key)
                 THEN setInternalWalk(entries, i + 1, queues, nextEntries)
                 ELSE Throw(TypeError)

RECURSIVE setInternalRemaining(_, _)
\* Add remaining values: key by key, in the order of the mapping
setInternalRemaining(queueEntries, nextEntries) ==
    IF queueEntries = <<>> THEN nextEntries
    ELSE setInternalRemaining(Tail(queueEntries),
            uspAppendAll(nextEntries, Head(queueEntries)[1], Head(queueEntries)[2]))

\* the body of setInternal(values) over the entries of the receiver: the
\* entries handed to safeSearchParams, or the error thrown on the way
setInternalEntries(entries, values) ==
    LET walked == setInternalWalk(entries, 1, CloneQueues(values), <<>>) IN
    IF walked.kind = "throw" THEN walked
    ELSE Return(setInternalRemaining(ObjectEntries(walked.value.queues),
                                     walked.value.nextEntries))

-----------------------------------------------------------------------------
(* Facades.  Every operator takes the heap h and the receiver f and gives   *)
(* the outcome of the call with what the call changed: the receiver's cache *)
(* for a read, the heap and the new facade for an update.                   *)

EmptyCache == [k \in {} |-> <<>>]

\* new URLSearchParams(init): a fresh object holding a copy of the entries
NewURLSearchParams(h, init) == Append(h, init)

\* (mutation) const nextUrlSearchParams = urlSearchParams: no copy is made
WritableCopyAliased(h, id) == [heap |-> h, id |-> id]

\* const nextUrlSearchParams = new URLSearchParams(urlSearchParams): the heap
\* and the id of the object the caller is about to change
WritableCopy(h, id) ==
    [heap |-> NewURLSearchParams(h, h[id]), id |-> Len(h) + 1]

\* safeSearchParams(init): a private URLSearchParams and an empty cache
safeSearchParams(h, init) ==
    [heap |-> NewURLSearchParams(h, init),
     facade |-> [urlSearchParams |-> Len(h) + 1, cache |-> EmptyCache]]

getAllFromCache(h, f, name) ==
    IF name \in DOMAIN f.cache
    THEN [all |-> f.cache[name], cache |-> f.cache]
    ELSE LET all == uspGetAll(h[f.urlSearchParams], name) IN
         [all |-> all, cache |-> (name :> all) @@ f.cache]

getInternal(h, f, name, type) ==
    LET got == getAllFromCache(h, f, name) IN
    [parsed |-> Parse(type, got.all), cache |-> got.cache]

get(h, f, name, type) ==
    LET r == getInternal(h, f, name, type) IN
    [out |-> IF r.parsed.valid THEN Return(r.parsed.value) ELSE Return(Null),
     cache |-> r.cache]

\* (mutation) getOrThrow that also rejects a valid null
getOrThrowNonNull(h, f, name, type) ==
    LET r == getInternal(h, f, name, type)
        again == getAllFromCache(h, [f EXCEPT !.cache = r.cache], name)
    IN  IF ~r.parsed.valid \/ r.parsed.value = Null
        THEN [out |-> Throw(createSafeSearchParamsErreur(
                                name, type, again.all,
                                IF r.parsed.valid THEN "Missing value" ELSE r.parsed.error)),
              cache |-> again.cache]
        ELSE [out |-> Return(r.parsed.value), cache |-> r.cache]

getOrThrow(h, f, name, type) ==
    LET r == getInternal(h, f, name, type)
        again == getAllFromCache(h, [f EXCEPT !.cache = r.cache], name)
    IN  IF ~r.parsed.valid
        THEN [out |-> Throw(createSafeSearchParamsErreur(
                                name, type, again.all, r.parsed.error)),
              cache |-> again.cache]
        ELSE [out |-> Return(r.parsed.value), cache |-> r.cache]

\* (mutation) has without the test on the number of raw values
hasParseOnly(h, f, name, type) ==
    LET got == getAllFromCache(h, f, name) IN
    [out |-> Return(Parse(type, got.all).valid), cache |-> got.cache]

has(h, f, name, type) ==
    LET got == getAllFromCache(h, f, name) IN
    [out |-> IF Len(got.all) = 0 THEN Return(FALSE)
             ELSE Return(Parse(type, got.all).valid),
     cache |-> got.cache]

RECURSIVE getObjLoop(_, _, _, _)
\* the loop of getObj over Object.entries(obj), output collected so far
getObjLoop(h, f, entries, output) ==
    IF entries = <<>> THEN [out |-> Return(output), cache |-> f.cache]
    ELSE LET r == get(h, f, Head(entries)[1], Head(entries)[2]) IN
         getObjLoop(h, [f EXCEPT !.cache = r.cache], Tail(entries),
                    ObjSet(output, Head(entries)[1], r.out.value))

getObj(h, f, obj) == getObjLoop(h, f, ObjectEntries(obj), <<>>)

RECURSIVE getObjOrThrowLoop(_, _, _, _)
\* the loop of getObjOrThrow: the first getOrThrow that throws ends the call
getObjOrThrowLoop(h, f, entries, output) ==
    IF entries = <<>> THEN [out |-> Return(output), cache |-> f.cache]
    ELSE LET r == getOrThrow(h, f, Head(entries)[1], Head(entries)[2]) IN
         IF r.out.kind = "throw" THEN r
         ELSE getObjOrThrowLoop(h, [f EXCEPT !.cache = r.cache], Tail(entries),
                                ObjSet(output, Head(entries)[1], r.out.value))

\* (mutation) getObjOrThrow visiting the fields last to first
getObjOrThrowBackwards(h, f, obj) ==
    getObjOrThrowLoop(h, f,
        [x \in 1..Len(obj) |-> ObjectEntries(obj)[Len(obj) + 1 - x]], <<>>)

getObjOrThrow(h, f, obj) == getObjOrThrowLoop(h, f, ObjectEntries(obj), <<>>)

\* an update that threw: no facade, the heap as the call left it
Thrown(h, e) == [out |-> Throw(e), heap |-> h, facade |-> [urlSearchParams |-> 0, cache |-> EmptyCache]]

\* (mutation) one cache for all the facades: the facade an update returns
\* goes on with what the facades before it have cached
ReturnedSharingCache(h, init) ==
    LET made == safeSearchParams(h, init) IN
    [out |-> Return("facade"), heap |-> made.heap,
     facade |-> [made.facade EXCEPT !.cache = facades[Len(facades)].cache]]

\* an update that returned safeSearchParams(init)
Returned(h, init) ==
    LET made == safeSearchParams(h, init) IN
    [out |-> Return("facade"), heap |-> made.heap, facade |-> made.facade]

append(h, f, name, type, value) ==
    IF SerializeThrows(type, value) THEN Thrown(h, TypeError)
    ELSE LET serialized == Serialize(type, value)
             next == WritableCopy(h, f.urlSearchParams)
             h2 == [next.heap EXCEPT ![next.id] = uspAppendAll(@, name, serialized)]
         IN  Returned(h2, h2[next.id])

del(h, f, name) ==
    LET next == WritableCopy(h, f.urlSearchParams)
        h2 == [next.heap EXCEPT ![next.id] = uspDelete(@, name)]
    IN  Returned(h2, h2[next.id])

sort(h, f) ==
    LET next == WritableCopy(h, f.urlSearchParams)
        h2 == [next.heap EXCEPT ![next.id] = uspSort(@)]
    IN  Returned(h2, h2[next.id])

setInternal(h, f, values) ==
    LET next == WritableCopy(h, f.urlSearchParams)
        merged == setInternalEntries(next.heap[next.id], values)
    IN  IF merged.kind = "throw" THEN Thrown(next.heap, merged.error)
        ELSE Returned(next.heap, merged.value)

set(h, f, name, type, value) ==
    IF SerializeThrows(type, value) THEN Thrown(h, TypeError)
    ELSE setInternal(h, f, <<<<name, Serialize(type, value)>>>>)

RECURSIVE setObjLoop(_, _, _)
\* the loop of setObj over Object.entries(values): the mapping handed to
\* setInternal, or the error thrown on the way
setObjLoop(obj, entries, nextValues) ==
    IF entries = <<>> THEN Return(nextValues)
    ELSE LET name == Head(entries)[1]
             value == Head(entries)[2]
             type == ObjGet(obj, name)
         IN  CASE type.kind = "undefined" -> Throw(UsageError(name))
               \* not a datatype: it has no serialize()
               [] type.kind = "inherited" -> Throw(TypeError)
               [] type.kind = "own" ->
                    IF SerializeThrows(type.value, value) THEN Throw(TypeError)
                    ELSE setObjLoop(obj, Tail(entries),
                            ObjSet(nextValues, name, Serialize(type.value, value)))

setObj(h, f, obj, values) ==
    LET looped == setObjLoop(obj, ObjectEntries(values), <<>>) IN
    IF looped.kind = "throw" THEN Thrown(h, looped.error)
    ELSE setInternal(h, f, looped.value)

\* toString() over the entries of the facade (no character of the model
\* needs percent-encoding)
toString(h, f) ==
    JoinStr([i \in 1..Len(h[f.urlSearchParams]) |->
                h[f.urlSearchParams][i][1] \o "=" \o Str(h[f.urlSearchParams][i][2])],
            "&")

-----------------------------------------------------------------------------
(* The inputs of the model *)

R1 == <<"1">>
R2 == <<"2">>
RHey == <<"h", "e", "y">>

Keys == {"a", "b", "constructor", "toString"}

RECURSIVE ValuesOf(_)
\* the values of a datatype's TypeScript type that the model hands to it
ValuesOf(d) ==
    CASE d.k = "String" -> {Null, StrV(R1), StrV(RHey)}
      [] d.k = "Integer" -> {Null, Num(3), NaN}
      [] d.k = "Present" -> {Bool(TRUE), Bool(FALSE)}
      [] d.k = "Regex" -> {Null, StrV(R1), StrV(RHey)}
      [] d.k = "Enum" -> {Null} \cup {StrV(d.values[i]) : i \in 1..Len(d.values)}
      [] d.k = "Multiple" ->
            {Arr(vs) : vs \in SeqsUpTo(ValuesOf(d.sub) \ {Null, NaN}, MaxNew)}
      [] d.k = "Required" -> ValuesOf(d.sub) \ {Null}

WriteTypes ==
    {DString, DInteger, DPresent, DRegex(DigitsRegex), DEnum(<<R1, R2>>),
     DMultiple(DString), DRequired(DString)}

ReadTypes ==
    WriteTypes
    \cup {DMultiple(DInteger), DRequired(DInteger)}
    \cup {DRequired(DPresent), DRequired(DRegex(DigitsRegex)), DRequired(DEnum(<<R1, R2>>)),
          DRequired(DMultiple(DString)), DRequired(DRequired(DString))}

\* schemas, as written by the caller
ObjAB == <<<<"a", DInteger>>, <<"b", DInteger>>>>
ObjBA == <<<<"b", DRequired(DString)>>, <<"a", DInteger>>>>
ObjM == <<<<"a", DMultiple(DString)>>, <<"b", DMultiple(DString)>>>>

ObjAInt == <<<<"a", DInteger>>>>

\* a schema with a field called like a method of Object.prototype
ObjAT == <<<<"a", DInteger>>, <<"toString", DInteger>>>>

\* a schema written with a field called b, then a field called 1: the
\* object holds the integer-like name first
ObjB1 ==
    ObjectFromEntries(<<<<"b", DRequired(DString)>>, <<"1", DRequired(DString)>>>>)

\* a schema holding a field called __proto__ as an own property
\* (Object.fromEntries, JSON.parse, a computed key)
ObjP == ObjectFromEntries(<<<<"__proto__", DString>>>>)

ReadObjs == {ObjAB, ObjBA, ObjM, ObjB1, ObjP}
WriteObjs == {ObjAB, ObjM, ObjAInt, ObjAT}

\* what the model supplies under a field name in a batch update: null or a
\* value of the field's type when the schema has the field, a string otherwise
FieldValues(obj, name) ==
    IF name \notin ObjKeys(obj) THEN {StrV(R1)}
    ELSE IF ObjOwn(obj, name).k = "Multiple"
         THEN {Null, Arr(<<>>), Arr(<<StrV(R1), StrV(RHey)>>)}
         ELSE {Null, Num(3)}

\* the value objects handed to setObj with schema obj: at most two fields
ValueObjs(obj) ==
    {<<>>}
    \cup UNION {{<<<<k, v>>>> : v \in FieldValues(obj, k)} : k \in Keys}
    \cup UNION {{<<<<kk[1], v1>>, <<kk[2], v2>>>> :
                    v1 \in FieldValues(obj, kk[1]), v2 \in FieldValues(obj, kk[2])} :
                kk \in {p \in Keys \X Keys : p[1] # p[2]}}

\* the entries an initial sequence is made of
InitEntries ==
    {<<"a", R1>>, <<"a", RHey>>, <<"b", R2>>, <<"toString", RHey>>, <<"constructor", R1>>}

-----------------------------------------------------------------------------
(* Actions: one per operation of a facade.  i is the receiver. *)

NoCall == [op |-> "none"]

\* a read: the receiver's cache may have grown, nothing else changes
Read(i, call, r) ==
    /\ facades' = [facades EXCEPT ![i].cache = r.cache]
    /\ ret' = call @@ [recv |-> i, out |-> r.out]
    /\ UNCHANGED heap

\* the objects the facades fs still refer to, renumbered in their order:
\* what no facade refers to is unreachable once the call is over
Reachable(h, fs) ==
    LET live == {fs[j].urlSearchParams : j \in 1..Len(fs)}
        rank(id) == Cardinality({x \in live : x <= id})
    IN  [heap |-> [n \in 1..Cardinality(live) |-> h[CHOOSE id \in live : rank(id) = n]],
         facades |-> [j \in 1..Len(fs) |->
                        [fs[j] EXCEPT !.urlSearchParams = rank(@)]]]

\* an update: the program keeps the facade it built first and the facade the
\* latest update returned; a throw yields no facade
Update(i, call, r) ==
    LET fs == IF r.out.kind = "return" THEN <<facades[1], r.facade>> ELSE facades
        kept == Reachable(r.heap, fs)
    IN  /\ heap' = kept.heap
        /\ facades' = kept.facades
        /\ ret' = call @@ [recv |-> i, from |-> heap[facades[i].urlSearchParams],
                           out |-> IF r.out.kind = "return" THEN Return(2) ELSE r.out]

Get(i, name, type) ==
    Read(i, [op |-> "get", name |-> name, type |-> type],
         get(heap, facades[i], name, type))

GetOrThrow(i, name, type) ==
    Read(i, [op |-> "getOrThrow", name |-> name, type |-> type],
         getOrThrow(heap, facades[i], name, type))

Has(i, name, type) ==
    Read(i, [op |-> "has", name |-> name, type |-> type],
         has(heap, facades[i], name, type))

GetObj(i, obj) ==
    Read(i, [op |-> "getObj", obj |-> obj], getObj(heap, facades[i], obj))

GetObjOrThrow(i, obj) ==
    Read(i, [op |-> "getObjOrThrow", obj |-> obj],
         getObjOrThrow(heap, facades[i], obj))

AppendValue(i, name, type, value) ==
    Update(i, [op |-> "append", name |-> name, type |-> type, value |-> value],
           append(heap, facades[i], name, type, value))

Delete(i, name) ==
    Update(i, [op |-> "delete", name |-> name], del(heap, facades[i], name))

Set(i, name, type, value) ==
    Update(i, [op |-> "set", name |-> name, type |-> type, value |-> value],
           set(heap, facades[i], name, type, value))

Sort(i) ==
    Update(i, [op |-> "sort"], sort(heap, facades[i]))

SetObj(i, obj, values) ==
    Update(i, [op |-> "setObj", obj |-> obj, values |-> values],
           setObj(heap, facades[i], obj, values))

-----------------------------------------------------------------------------
(* SpecCall: one call on a facade built over any initial sequence *)

InitOver(S) ==
    /\ heap = safeSearchParams(<<>>, S).heap
    /\ facades = <<safeSearchParams(<<>>, S).facade>>
    /\ ret = NoCall

InitCall == \E S \in SeqsUpTo(InitEntries, MaxLen) : InitOver(S)

NextCall ==
    /\ ret.op = "none"
    /\ \/ \E name \in Keys, type \in ReadTypes : Get(1, name, type)
       \/ \E name \in Keys, type \in ReadTypes : GetOrThrow(1, name, type)
       \/ \E name \in Keys, type \in ReadTypes : Has(1, name, type)
       \/ \E obj \in ReadObjs : GetObj(1, obj)
       \/ \E obj \in ReadObjs : GetObjOrThrow(1, obj)
       \/ \E name \in Keys, type \in WriteTypes :
             \E value \in ValuesOf(type) : AppendValue(1, name, type, value)
       \/ \E name \in Keys : Delete(1, name)
       \/ \E name \in Keys, type \in WriteTypes :
             \E value \in ValuesOf(type) : Set(1, name, type, value)
       \/ Sort(1)
       \/ \E obj \in WriteObjs : \E values \in ValueObjs(obj) : SetObj(1, obj, values)

SpecCall == InitCall /\ [][NextCall]_vars

-----------------------------------------------------------------------------
(* Spec: the life of a program's facades.  The program holds the facade it *)
(* built (facades[1]) and the facade its latest update returned            *)
(* (facades[2]); either may be the receiver of the next call.  Updates     *)
(* that would outgrow MaxLen are not issued.                               *)

LifeEntries == {<<"a", RHey>>, <<"b", R2>>, <<"constructor", R1>>}

ObjA == <<<<"a", DString>>>>

LifeValueObjs ==
    {<<<<"a", StrV(R1)>>>>,
     <<<<"a", Null>>, <<"b", Null>>>>,
     <<<<"toString", StrV(R1)>>>>}

SeqOf(i) == heap[facades[i].urlSearchParams]

Init == \E S \in SeqsUpTo(LifeEntries, MaxLen) : InitOver(S)

Next ==
    \E i \in 1..Len(facades) :
       \/ Get(i, "a", DInteger)
       \/ GetOrThrow(i, "a", DInteger)
       \/ Has(i, "a", DInteger)
       \/ GetObj(i, ObjA)
       \/ GetObjOrThrow(i, <<<<"a", DInteger>>>>)
       \/ Len(SeqOf(i)) < MaxLen /\ AppendValue(i, "a", DString, StrV(R1))
       \/ \E name \in {"a", "constructor"} : Delete(i, name)
       \/ Len(SeqOf(i)) < MaxLen /\ \E value \in {Null, StrV(R1)} : Set(i, "a", DString, value)
       \/ Sort(i)
       \/ Len(SeqOf(i)) < MaxLen /\ \E values \in LifeValueObjs : SetObj(i, ObjA, values)

Spec == Init /\ [][Next]_vars

-----------------------------------------------------------------------------
(* SpecCache: the same program, reading two keys in any order, before and   *)
(* after the updates, on the facade it built and on the latest derived one. *)

CacheKeys == {"a", "b"}

NextCache ==
    \E i \in 1..Len(facades) :
       \/ \E name \in CacheKeys : Get(i, name, DInteger)
       \/ \E name \in CacheKeys : GetOrThrow(i, name, DRequired(DString))
       \/ \E name \in CacheKeys : Has(i, name, DInteger)
       \/ GetObj(i, ObjAB)
       \/ GetObjOrThrow(i, ObjBA)
       \/ Len(SeqOf(i)) < MaxLen /\ AppendValue(i, "a", DString, StrV(R1))
       \/ Delete(i, "a")
       \/ Len(SeqOf(i)) < MaxLen /\ Set(i, "b", DString, StrV(R1))
       \/ Sort(i)
       \/ Len(SeqOf(i)) < MaxLen /\ SetObj(i, ObjAB, <<<<"a", Num(3)>>>>)

SpecCache == Init /\ [][NextCache]_vars

-----------------------------------------------------------------------------
(* Vocabulary of the properties *)

\* number of entries of seq called k
Count(seq, k) == Cardinality({j \in 1..Len(seq) : seq[j][1] = k})

\* the entry at position j is the OccIdx-th occurrence of its key
OccIdx(seq, j) == Cardinality({x \in 1..j : seq[x][1] = seq[j][1]})

\* position of the i-th occurrence of k
NthPos(seq, k, i) == CHOOSE j \in 1..Len(seq) : seq[j][1] = k /\ OccIdx(seq, j) = i

\* number of entries of other keys in front of position j
OthersBefore(seq, k, j) == Cardinality({x \in 1..(j - 1) : seq[x][1] # k})

\* the entries of seq whose key is not in ks, in order
Without(seq, ks) == SelectSeq(seq, LAMBDA e : e[1] \notin ks)

\* no entry of seq is called like a property of Object.prototype
OrdinaryKeys(seq) == \A j \in 1..Len(seq) : seq[j][1] \notin DOMAIN ObjectPrototypeLength

\* the call returned a new facade
ReturnedFacade == ret.out.kind = "return" /\ Len(facades) = 2

-----------------------------------------------------------------------------
(* C1 *)

C1_Body ==
    LET S == ret.from
        k == ret.name
        new == Serialize(ret.type, ret.value)
        n == Count(S, k)
        m == Len(new)
    IN  /\ ReturnedFacade
        /\ LET T == SeqOf(2) IN
           /\ Count(T, k) = m
           /\ \A i \in 1..Min(n, m) :
                 /\ T[NthPos(T, k, i)] = <<k, new[i]>>
                 /\ OthersBefore(T, k, NthPos(T, k, i)) = OthersBefore(S, k, NthPos(S, k, i))
           /\ m > n => /\ Len(T) >= m - n
                       /\ SubSeq(T, Len(T) - (m - n) + 1, Len(T))
                            = [i \in 1..(m - n) |-> <<k, new[n + i]>>]
           /\ m < n => Len(T) = Len(S) - (n - m)

\* C1: after set(k, d, v) on any sequence, k has exactly the m serialized
\* values: the first min(n, m) in the slots of k's first original
\* occurrences, the extra m - n at the very end in order, the last n - m
\* original occurrences dropped.
C1_OccurrenceCount == ret.op = "set" => C1_Body

\* C1 restricted to sequences without keys named like Object.prototype
\* properties
C1_OccurrenceCountOrdinary == (ret.op = "set" /\ OrdinaryKeys(ret.from)) => C1_Body

-----------------------------------------------------------------------------
(* C2 *)

\* the keys of the update mapping of the last set / setObj call
UpdatedKeys ==
    IF ret.op = "set" THEN {ret.name} ELSE ObjKeys(ret.values)

\* the last call is a set, or a setObj whose values all have a schema entry
\* and serialize: an update mapping M reached the merge
MergeCall ==
    \/ ret.op = "set"
    \/ /\ ret.op = "setObj"
       /\ setObjLoop(ret.obj, ObjectEntries(ret.values), <<>>).kind = "return"

\* C2: whatever the key strings, an update returns a sequence in which the
\* entries of the keys it does not touch are all there, unchanged, in their
\* original relative order.
C2_UntouchedKept ==
    MergeCall =>
        /\ ReturnedFacade
        /\ Without(SeqOf(2), UpdatedKeys) = Without(ret.from, UpdatedKeys)

\* C2 restricted to sequences without keys named like Object.prototype
\* properties
C2_UntouchedKeptOrdinary ==
    (MergeCall /\ OrdinaryKeys(ret.from)) =>
        /\ ReturnedFacade
        /\ Without(SeqOf(2), UpdatedKeys) = Without(ret.from, UpdatedKeys)

-----------------------------------------------------------------------------
(* C3 *)

\* the step replaced the latest facade by the one an update returned
NewLatest == ret'.op \in {"append", "delete", "set", "setObj", "sort"} /\ ret'.out.kind = "return"

\* C3: no call, returning or throwing, on a facade or on one derived from it
\* changes the sequence of a facade the program holds (its toString() stays
\* what it was), and the facade an update returns has a URLSearchParams of
\* its own.
C3_ReceiverImmutable ==
    [][/\ SeqOf(1)' = SeqOf(1)
       /\ toString(heap', facades'[1]) = toString(heap, facades[1])
       /\ (Len(facades) = 2 /\ ~NewLatest) => SeqOf(2)' = SeqOf(2)
       /\ Len(facades') = 2 => facades'[1].urlSearchParams # facades'[2].urlSearchParams
      ]_vars

\* an update on a facade that an earlier update had returned gave a third
\* sequence, the first facade still holding its own
C3_Witness ==
    /\ ret.op = "append" /\ ret.recv = 2 /\ ret.out.kind = "return"
    /\ Len(SeqOf(1)) = MaxLen
    /\ ret.from # SeqOf(1)
    /\ SeqOf(2) # ret.from
    /\ SeqOf(2) # SeqOf(1)

-----------------------------------------------------------------------------
(* C4 *)

\* what get(k, d) gives on the facade the last set(k, d, v) returned
C4_ReadBack == get(heap, facades[2], ret.name, ret.type).out.value

C4_Body ==
    /\ ReturnedFacade
    /\ ~SerializeThrows(ret.type, C4_ReadBack)
    /\ Serialize(ret.type, C4_ReadBack) = Serialize(ret.type, ret.value)

\* v is a value of datatype d: what d serializes it to, d parses
C4_ValueOfType == Parse(ret.type, Serialize(ret.type, ret.value)).valid

\* C4: for every sequence, key, datatype d and value v of d, get(k, d) on
\* the facade returned by set(k, d, v) re-serializes to d.serialize(v).
C4_SetGetRoundTrip == (ret.op = "set" /\ C4_ValueOfType) => C4_Body

\* C4 for every value the TypeScript type of d admits (NaN for rInteger, a
\* string the expression rejects for rRegex), on ordinary sequences
C4_SetGetRoundTripAnyValue == (ret.op = "set" /\ OrdinaryKeys(ret.from)) => C4_Body

\* C4 restricted to sequences without keys named like Object.prototype
\* properties
C4_SetGetRoundTripOrdinary ==
    (ret.op = "set" /\ C4_ValueOfType /\ OrdinaryKeys(ret.from)) => C4_Body

-----------------------------------------------------------------------------
(* C5 *)

\* the mapping setObj hands to the merge: field name -> serialized values
C5_Mapping == setObjLoop(ret.obj, ObjectEntries(ret.values), <<>>).value

\* what one original entry becomes in a single walk: itself when its key is
\* not updated, the next new value of its key when one is left, nothing
\* otherwise
C5_Slot(S, M, j) ==
    LET k == S[j][1] IN
    IF k \notin ObjKeys(M) THEN <<S[j]>>
    ELSE IF OccIdx(S, j) <= Len(ObjOwn(M, k)) THEN <<<<k, ObjOwn(M, k)[OccIdx(S, j)]>>>>
    ELSE <<>>

\* the new values of the x-th key of the mapping that found no slot
C5_Leftover(S, M, x) ==
    LET k == M[x][1]
        n == Count(S, k)
    IN  [y \in 1..(Len(M[x][2]) - n) |-> <<k, M[x][2][n + y]>>]

C5_Expected(S, M) ==
    Flatten([j \in 1..Len(S) |-> C5_Slot(S, M, j)])
        \o Flatten([x \in 1..Len(M) |-> C5_Leftover(S, M, x)])

\* C5: setObj merges all its keys in one walk: every retained occurrence of
\* an updated key is replaced in its slot, keys that serialize to nothing
\* lose their entries, leftovers go to the very end grouped by key in the
\* order of the mapping.
C5_BatchSinglePass ==
    (ret.op = "setObj" /\ MergeCall) =>
        /\ ReturnedFacade
        /\ SeqOf(2) = C5_Expected(ret.from, C5_Mapping)

\* C5 restricted to sequences without keys named like Object.prototype
\* properties
C5_BatchSinglePassOrdinary ==
    (ret.op = "setObj" /\ MergeCall /\ OrdinaryKeys(ret.from)) =>
        /\ ReturnedFacade
        /\ SeqOf(2) = C5_Expected(ret.from, C5_Mapping)

-----------------------------------------------------------------------------
(* C6 *)

\* the raw values of the last read's key in the receiver's own sequence
RawOfRead == uspGetAll(SeqOf(ret.recv), ret.name)

\* C6: has(name, d) is true exactly when name has at least one raw value and
\* d.parse of all of them is Valid; without raw values it is false, also for
\* a datatype that parses the empty list.
C6_HasIffPresentAndValid ==
    ret.op = "has" =>
        ret.out = Return(Len(RawOfRead) >= 1 /\ Parse(ret.type, RawOfRead).valid)

\* has answered false for an absent key under a datatype that accepts the
\* empty list
C6_Witness ==
    /\ ret.op = "has"
    /\ ret.type = DMultiple(DString)
    /\ RawOfRead = <<>>
    /\ Parse(ret.type, RawOfRead).valid
    /\ ret.out = Return(FALSE)

-----------------------------------------------------------------------------
(* C7 *)

\* C7: getOrThrow(name, d) throws exactly when d.parse of name's raw values
\* is Invalid, the failure carrying name, d, all the raw values in order, the
\* parse reason and the documented message; when parse is Valid it returns
\* the parsed value, null included.
C7_GetOrThrow ==
    ret.op = "getOrThrow" =>
        LET parsed == Parse(ret.type, RawOfRead) IN
        IF ~parsed.valid
        THEN /\ ret.out.kind = "throw"
             /\ ret.out.error.type = "SafeSearchParamsErreur"
             /\ ret.out.error.property = ret.name
             /\ ret.out.error.datatype = ret.type
             /\ ret.out.error.values = RawOfRead
             /\ ret.out.error.error = parsed.error
             /\ ret.out.error.message =
                   "Failed to validate " \o DtName(ret.type)
                   \o " rule for property \"" \o ret.name \o "\" with values: "
                   \o JoinStr([x \in 1..Len(RawOfRead) |-> Str(RawOfRead[x])], ", ")
                   \o ". " \o parsed.error
        ELSE ret.out = Return(parsed.value)

\* getOrThrow returned null for a key without raw values
C7_Witness ==
    /\ ret.op = "getOrThrow"
    /\ ret.type = DString
    /\ RawOfRead = <<>>
    /\ ret.out = Return(Null)

-----------------------------------------------------------------------------
(* C8 *)

\* the fields of the schema of the last getObjOrThrow whose parse is Invalid,
\* by their place in the schema
C8_Failing ==
    {x \in 1..Len(ret.obj) :
        ~Parse(ret.obj[x][2], uspGetAll(SeqOf(ret.recv), ret.obj[x][1])).valid}

\* C8: getObjOrThrow fails with the structured failure of the first field, in
\* schema order, whose parse is Invalid, and returns nothing then; otherwise
\* it returns exactly the schema's fields, each with its parsed value.
C8_GetObjOrThrow ==
    ret.op = "getObjOrThrow" =>
        IF C8_Failing # {}
        THEN LET x == CHOOSE y \in C8_Failing : \A z \in C8_Failing : y <= z
                 all == uspGetAll(SeqOf(ret.recv), ret.obj[x][1])
             IN  ret.out = Throw(createSafeSearchParamsErreur(
                                    ret.obj[x][1], ret.obj[x][2], all,
                                    Parse(ret.obj[x][2], all).error))
        ELSE ret.out = Return([x \in 1..Len(ret.obj) |->
                <<ret.obj[x][1],
                  Parse(ret.obj[x][2],
                        uspGetAll(SeqOf(ret.recv), ret.obj[x][1])).value>>])

\* C8 restricted to schemas without a field called __proto__
C8_GetObjOrThrowOrdinary ==
    (ret.op = "getObjOrThrow" /\ "__proto__" \notin ObjKeys(ret.obj)) => C8_GetObjOrThrow

\* two fields of the schema fail and the call threw
C8_Witness ==
    /\ ret.op = "getObjOrThrow"
    /\ Cardinality(C8_Failing) >= 2
    /\ ret.out.kind = "throw"

-----------------------------------------------------------------------------
(* C9 *)

\* the field names of the last setObj's values that the schema lacks
C9_Missing == ObjKeys(ret.values) \ ObjKeys(ret.obj)

C9_Body ==
    IF C9_Missing # {}
    THEN /\ ret.out.kind = "throw"
         /\ ret.out.error.type = "Error"
         /\ Len(facades) = 1
         /\ SeqOf(1) = ret.from
    ELSE /\ ~(ret.out.kind = "throw" /\ ret.out.error.type = "Error")
         /\ ReturnedFacade =>
               \A k \in ObjKeys(ret.obj) \ ObjKeys(ret.values) :
                   uspGetAll(SeqOf(2), k) = uspGetAll(ret.from, k)

\* C9: setObj throws the usage error, returns no facade and leaves the
\* receiver alone whenever values has a field the schema lacks; otherwise it
\* throws no usage error and leaves the schema fields absent from values
\* untouched.
C9_UsageError == ret.op = "setObj" => C9_Body

\* C9 restricted to field names, of the values and of the schema, that are
\* not properties of Object.prototype and to values all of which serialize
C9_UsageErrorOrdinary ==
    (/\ ret.op = "setObj"
     /\ (ObjKeys(ret.values) \cup ObjKeys(ret.obj)) \cap DOMAIN ObjectPrototypeLength = {}
     /\ \A x \in 1..Len(ret.values) :
           ret.values[x][1] \in ObjKeys(ret.obj) =>
              ~SerializeThrows(ObjOwn(ret.obj, ret.values[x][1]), ret.values[x][2]))
    => C9_Body

-----------------------------------------------------------------------------
(* C10 *)

\* C10: delete(name) returns a facade without any entry called name, every
\* other entry being kept with its value, in the same order and the same
\* position among the entries that remain.
C10_Delete ==
    ret.op = "delete" =>
        /\ ReturnedFacade
        /\ Count(SeqOf(2), ret.name) = 0
        /\ SeqOf(2) = Without(ret.from, {ret.name})
        /\ \A k \in Keys \ {ret.name} :
              uspGetAll(SeqOf(2), k) = uspGetAll(ret.from, k)

\* delete removed two entries that had an entry of another key between them
C10_Witness ==
    /\ ret.op = "delete"
    /\ ReturnedFacade
    /\ \E x, y, z \in 1..Len(ret.from) :
          /\ x < y /\ y < z
          /\ ret.from[x][1] = ret.name
          /\ ret.from[y][1] # ret.name
          /\ ret.from[z][1] = ret.name
    /\ Len(SeqOf(2)) >= 1

-----------------------------------------------------------------------------
(* C11 *)

\* number of times the entry e occurs in seq
Occurrences(seq, e) == Cardinality({j \in 1..Len(seq) : seq[j] = e})

\* the sequence of the facade that sort() returns when called on facade i
SortedAgain(i) ==
    LET again == sort(heap, facades[i]) IN
    again.heap[again.facade.urlSearchParams]

\* C11: sort() returns a new facade whose sequence is a permutation of the
\* receiver's entries, ordered by key, the entries of one key keeping their
\* original relative order; sorting the result again gives the same sequence.
C11_SortStableIdempotent ==
    ret.op = "sort" =>
        /\ ReturnedFacade
        /\ LET S == ret.from
               T == SeqOf(2)
           IN  /\ Len(T) = Len(S)
               /\ \A e \in Range(S) \cup Range(T) : Occurrences(T, e) = Occurrences(S, e)
               /\ \A j \in 1..(Len(T) - 1) : ~KeyLess(T[j + 1][1], T[j][1])
               /\ \A k \in Keys : uspGetAll(T, k) = uspGetAll(S, k)
               /\ SortedAgain(2) = T

\* sort moved two entries of one key, holding different values, in front of
\* an entry of another key, and kept the two in their order
C11_Witness ==
    /\ ret.op = "sort"
    /\ ReturnedFacade
    /\ SeqOf(2) # ret.from
    /\ \E x, y, z \in 1..Len(ret.from) :
          /\ x < y /\ y < z
          /\ KeyLess(ret.from[y][1], ret.from[x][1])
          /\ ret.from[y][1] = ret.from[z][1]
          /\ ret.from[y][2] # ret.from[z][2]

-----------------------------------------------------------------------------
(* C12 *)

\* the last call is getOrThrow(name, rRequired(d))
C12_RequiredRead == ret.op = "getOrThrow" /\ ret.type.k = "Required"

\* what the wrapped datatype d makes of the raw values of the key
C12_Inner == Parse(ret.type.sub, RawOfRead)

\* getOrThrow threw the structured failure with this parse error
C12_ThrewWith(error) ==
    /\ ret.out.kind = "throw"
    /\ ret.out.error.type = "SafeSearchParamsErreur"
    /\ ret.out.error.error = error

\* C12 as stated: for every wrapped datatype d, rRequired(d) is Invalid with
\* "Missing value" when the key has no raw values or d parses to null, passes
\* the error of an Invalid d.parse through, and is Valid with d's value
\* otherwise.
C12_RequiredAsStated ==
    C12_RequiredRead =>
        IF ~C12_Inner.valid THEN C12_ThrewWith(C12_Inner.error)
        ELSE IF RawOfRead = <<>> \/ C12_Inner.value = Null
             THEN C12_ThrewWith("Missing value")
        ELSE ret.out = Return(C12_Inner.value)

\* C12 amended: rRequired(d) is Invalid with "Missing value" exactly when
\* d.parse is Valid with null: so it is for a key without raw values under
\* rString, rInteger, rRegex and rEnum, but not under rPresent (Valid false)
\* or rMultiple (Valid empty list); the error of an Invalid d.parse is passed
\* through unchanged; otherwise it is Valid with d's value.
C12_RequiredNonNull ==
    C12_RequiredRead =>
        /\ IF ~C12_Inner.valid THEN C12_ThrewWith(C12_Inner.error)
           ELSE IF C12_Inner.value = Null THEN C12_ThrewWith("Missing value")
           ELSE ret.out = Return(C12_Inner.value)
        /\ RawOfRead = <<>> =>
              CASE ret.type.sub.k \in {"String", "Integer", "Regex", "Enum", "Required"} ->
                      C12_ThrewWith("Missing value")
                [] ret.type.sub.k = "Present" -> ret.out = Return(Bool(FALSE))
                [] ret.type.sub.k = "Multiple" -> ret.out = Return(Arr(<<>>))

\* getOrThrow with a required string threw "Missing value" for a key the
\* sequence does not hold
C12_Witness ==
    /\ ret.op = "getOrThrow"
    /\ ret.type = DRequired(DString)
    /\ RawOfRead = <<>>
    /\ SeqOf(ret.recv) # <<>>
    /\ C12_ThrewWith("Missing value")
    /\ get(heap, facades[ret.recv], ret.name, DString).out = Return(Null)

-----------------------------------------------------------------------------
(* C13 *)

\* facade i as it would be had it never been read
Unread(i) == [facades[i] EXCEPT !.cache = EmptyCache]

\* the outcome of the last read, had the receiver never been read before
C13_FirstRead ==
    CASE ret.op = "get" -> get(heap, Unread(ret.recv), ret.name, ret.type).out
      [] ret.op = "getOrThrow" -> getOrThrow(heap, Unread(ret.recv), ret.name, ret.type).out
      [] ret.op = "has" -> has(heap, Unread(ret.recv), ret.name, ret.type).out
      [] ret.op = "getObj" -> getObj(heap, Unread(ret.recv), ret.obj).out
      [] ret.op = "getObjOrThrow" -> getObjOrThrow(heap, Unread(ret.recv), ret.obj).out

\* C13: every cache entry of every facade is the ordered list of raw values
\* of its key in the facade's own sequence; a read gives what it would give
\* on a facade never read before, whatever was read earlier and in whatever
\* order; the facade an update returns starts with an empty cache.
C13_CacheConsistent ==
    /\ \A i \in 1..Len(facades) : \A name \in DOMAIN facades[i].cache :
          facades[i].cache[name] = uspGetAll(SeqOf(i), name)
    /\ ret.op \in {"get", "getOrThrow", "has", "getObj", "getObjOrThrow"} =>
          ret.out = C13_FirstRead
    /\ (ret.op \in {"append", "delete", "set", "setObj", "sort"} /\ ret.out.kind = "return") =>
          facades[2].cache = EmptyCache

\* both keys have been read on the first facade and, after the update that
\* made it, on the derived facade, whose cache differs on both keys; the last
\* read found its key cached
C13_Witness ==
    /\ ret.op = "get" /\ ret.recv = 2
    /\ Len(facades) = 2
    /\ DOMAIN facades[1].cache = CacheKeys
    /\ DOMAIN facades[2].cache = CacheKeys
    /\ \A name \in CacheKeys : facades[1].cache[name] # facades[2].cache[name]

-----------------------------------------------------------------------------
(* C14 *)

RECURSIVE ChainedMerges(_, _)
\* the single-key merges of the mapping M applied one after another to S, in
\* the order of M: the final sequence, or the error of the merge that threw
ChainedMerges(S, M) ==
    IF M = <<>> THEN Return(S)
    ELSE LET step == setInternalEntries(S, <<Head(M)>>) IN
         IF step.kind = "throw" THEN step
         ELSE ChainedMerges(step.value, Tail(M))

C14_Body ==
    LET chained == ChainedMerges(ret.from, C5_Mapping) IN
    IF chained.kind = "throw" THEN ret.out = chained
    ELSE /\ ReturnedFacade
         /\ SeqOf(2) = chained.value

\* C14: for every sequence and every update mapping of one key or more (keys
\* pairwise distinct), the single-pass merge of the mapping gives exactly the
\* sequence that the single-key merges give when applied one after another
\* in the order of the mapping.
C14_BatchEqualsChain ==
    (ret.op = "setObj" /\ MergeCall /\ Len(C5_Mapping) >= 1) => C14_Body

\* C14 restricted to sequences and mappings without keys named like
\* Object.prototype properties
C14_BatchEqualsChainOrdinary ==
    (/\ ret.op = "setObj" /\ MergeCall /\ Len(C5_Mapping) >= 1
     /\ OrdinaryKeys(ret.from)
     /\ ObjKeys(C5_Mapping) \cap DOMAIN ObjectPrototypeLength = {})
    => C14_Body

====
